---- MODULE Spec2Model ----
(***************************************************************************)
(* Model of the request-reliability layer of package nanoleaf              *)
(* (src/nanoleaf.go, lines 1-265): Controller.retry, retryableErr, and the *)
(* get/put operations that route their HTTP exchange through retry.        *)
(*                                                                         *)
(* Durations are time.Duration values, i.e. integer nanoseconds.  5s is    *)
(* 5*10^9 ns, beyond 32-bit integers, so a duration is held as a           *)
(* little-endian sequence of four limbs in base LimbBase.                  *)
(***************************************************************************)
EXTENDS Integers, Sequences, FiniteSets, TLC

\* ------------------------------------------------------------------------
\* Bounds of the model
\* ------------------------------------------------------------------------
MaxAttempts == 12
MaxPauses == 1
MaxCalls == 2
MaxConcAttempts == 3
MaxRounds == 2

\* ------------------------------------------------------------------------
\* Duration arithmetic (integer nanoseconds, multi-limb)
\* ------------------------------------------------------------------------
LimbBase == 1000000

Zero == <<0, 0, 0, 0>>

\* n milliseconds (n < LimbBase) as a duration: n * 10^6 ns.
Ms(n) == <<0, n, 0, 0>>

RECURSIVE MulLimbs(_, _, _)
MulLimbs(d, m, carry) ==
    IF d = <<>> THEN <<>>
    ELSE LET p == Head(d) * m + carry
         IN  <<p % LimbBase>> \o MulLimbs(Tail(d), m, p \div LimbBase)

\* d * m for a small non-negative integer m.
MulSmall(d, m) == MulLimbs(d, m, 0)

RECURSIVE DivLimbs(_, _, _)
DivLimbs(d, q, rem) ==
    IF d = <<>> THEN <<>>
    ELSE LET n == Len(d)
             cur == rem * LimbBase + d[n]
         IN  DivLimbs(SubSeq(d, 1, n - 1), q, cur % q) \o <<cur \div q>>

\* floor(d / q) for a small positive integer q.
DivSmall(d, q) == DivLimbs(d, q, 0)

RECURSIVE AddLimbs(_, _, _)
AddLimbs(a, b, carry) ==
    IF a = <<>> THEN <<>>
    ELSE LET s == Head(a) + Head(b) + carry
         IN  <<s % LimbBase>> \o AddLimbs(Tail(a), Tail(b), s \div LimbBase)

Add(a, b) == AddLimbs(a, b, 0)

RECURSIVE LessLimbs(_, _)
LessLimbs(a, b) ==
    IF a = <<>> THEN FALSE
    ELSE LET n == Len(a)
         IN  IF a[n] # b[n] THEN a[n] < b[n]
             ELSE LessLimbs(SubSeq(a, 1, n - 1), SubSeq(b, 1, n - 1))

Less(a, b) == LessLimbs(a, b)
Leq(a, b) == ~Less(b, a)
MinDur(a, b) == IF Less(b, a) THEN b ELSE a
MaxDur(a, b) == IF Less(a, b) THEN b ELSE a

\* ------------------------------------------------------------------------
\* Automatic retry parameters (const block)
\* ------------------------------------------------------------------------
baseTimeout == Ms(100)
maxTimeout == Ms(5000)
\* backoffMult = 1.5 as the fraction backoffNum / backoffDen
backoffNum == 3
backoffDen == 2

\* ------------------------------------------------------------------------
\* Errors.  An error value is the chain of its layers, outermost first, as
\* errors.Unwrap walks it; the nil error is the empty chain.
\* ------------------------------------------------------------------------
Nil == <<>>

WrapPreparing == "fmt.wrapError(preparing HTTP request)"
WrapMaking == "fmt.wrapError(making HTTP request)"
UrlError == "url.Error"
OpError == "net.OpError"
DeadlineExceeded == "context.DeadlineExceeded"
Canceled == "context.Canceled"
ETIMEDOUT == "syscall.ETIMEDOUT"
ECONNREFUSED == "syscall.ECONNREFUSED"
UnexpectedEOF == "io.ErrUnexpectedEOF"
InvalidHost == "url.InvalidHostError"

\* Layers whose dynamic type has Timeout() and Temporary(), i.e. implements
\* net.Error.  fmt.wrapError has only Error() and Unwrap().
NetErrorTypes == {UrlError, OpError, DeadlineExceeded, ETIMEDOUT, ECONNREFUSED}

\* errors.Is(err, target): some layer of the chain equals target.
ErrorsIs(err, target) == \E i \in 1..Len(err) : err[i] = target

\* Value of Timeout() called on the outermost layer of e (e non-empty, its
\* head a net.Error): url.Error and net.OpError delegate to the error they
\* hold, the leaves answer for themselves.
RECURSIVE TimeoutOf(_)
TimeoutOf(e) ==
    IF e = <<>> THEN FALSE
    ELSE IF Head(e) \in {UrlError, OpError}
         THEN Len(e) > 1 /\ Head(Tail(e)) \in NetErrorTypes /\ TimeoutOf(Tail(e))
    ELSE Head(e) \in {DeadlineExceeded, ETIMEDOUT}

\* retryableErr with the nil check dropped
retryableErrNoNilCheck(err) ==
    \/ ErrorsIs(err, DeadlineExceeded)
    \/ err = Nil
    \/ (err # Nil /\ Head(err) \in NetErrorTypes /\ TimeoutOf(err))

\* retryableErr taking a cancellation for a timeout
retryableErrCanceled(err) ==
    err # Nil /\ (ErrorsIs(err, DeadlineExceeded) \/ ErrorsIs(err, Canceled))

\* retryableErr retrying every error
retryableErrAny(err) == err # Nil

\* retryableErr reports whether the error should cause another try.
retryableErr(err) ==
    IF err = Nil THEN FALSE
    ELSE IF ErrorsIs(err, DeadlineExceeded) THEN TRUE
    ELSE IF Head(err) \in NetErrorTypes /\ TimeoutOf(err) THEN TRUE
    ELSE FALSE

\* The classification the specification words: err is a timeout-class error
\* when it is (or wraps) context.DeadlineExceeded, or some error of its chain
\* is a net.Error whose Timeout() is true.
TimeoutClass(err) ==
    \/ ErrorsIs(err, DeadlineExceeded)
    \/ \E i \in 1..Len(err) :
          err[i] \in NetErrorTypes /\ TimeoutOf(SubSeq(err, i, Len(err)))

\* The errors the attempt closures of get and put build.
ErrPreparing == <<WrapPreparing, UrlError, InvalidHost>>
ErrSubDeadline == <<WrapMaking, UrlError, DeadlineExceeded>>
ErrCanceled == <<WrapMaking, UrlError, Canceled>>
ErrTransport(leaf) == <<WrapMaking, UrlError, OpError, leaf>>
TransportLeaves == {ETIMEDOUT, ECONNREFUSED, UnexpectedEOF}

\* ------------------------------------------------------------------------
\* Responses
\* ------------------------------------------------------------------------
NilResp == [present |-> FALSE, status |-> 0, attempt |-> 0]
Statuses == {200, 204, 404, 500}

\* Errors built by get and put after retry has returned.
ErrStatus == <<"fmt.Errorf(HTTP response)">>
ErrReading == <<"fmt.wrapError(reading HTTP response body)", UnexpectedEOF>>
ErrDecode == <<"json.SyntaxError">>

\* ------------------------------------------------------------------------
\* Controller methods: the request each one builds
\* ------------------------------------------------------------------------

\* encoding/json: a bool, an int and a string value.
JsonBool(b) == IF b THEN "true" ELSE "false"
JsonInt(n) == ToString(n)
JsonString(str) == "\"" \o str \o "\""

\* encoding/json: an int field tagged omitempty is left out when it is 0.
\* The result is the text of the field, preceded by a comma.
JsonIntFieldOmitEmpty(name, n) ==
    IF n = 0 THEN "" ELSE ",\"" \o name \o "\":" \o JsonInt(n)

\* State: GET of "/", no body.
StateCall == [api |-> "State", method |-> "GET", path |-> "/", body |-> ""]

\* Off: the zero value of struct{On struct{Value bool}}.
OffCall ==
    [api |-> "Off", method |-> "PUT", path |-> "/state",
     body |-> "{\"on\":{\"value\":" \o JsonBool(FALSE) \o "}}"]

\* On with req.On.Value left at its zero value
OnValueUnset == FALSE
\* On: "req.On.Value = true".
OnValue == TRUE

OnCall ==
    [api |-> "On", method |-> "PUT", path |-> "/state",
     body |-> "{\"on\":{\"value\":" \o JsonBool(OnValue) \o "}}"]

\* A time.Duration argument: its sign and its magnitude in nanoseconds.
Dur(neg, mag) == [neg |-> neg, mag |-> mag]

\* int(dur / time.Second) for dur >= 0: the quotient by 10^9, truncated.
DurDivSecond(mag) ==
    LET q == DivSmall(DivSmall(DivSmall(mag, 1000), 1000), 1000)
    IN  q[1] + LimbBase * q[2]

\* SetBrightnessDuration in milliseconds instead of seconds
SetBrightnessDurationMillis(dur) ==
    IF ~dur.neg
    THEN LET q == DivSmall(DivSmall(dur.mag, 1000), 1000) IN q[1] + LimbBase * q[2]
    ELSE 0
\* SetBrightness: "if dur >= 0 { req.Brightness.Duration = int(dur / time.Second) }";
\* the field keeps its zero value otherwise.
SetBrightnessDuration(dur) == IF ~dur.neg THEN DurDivSecond(dur.mag) ELSE 0

\* SetBrightness: struct{Brightness struct{Value int; Duration int omitempty}}.
SetBrightnessCall(value, dur) ==
    [api |-> "SetBrightness", method |-> "PUT", path |-> "/state",
     body |-> "{\"brightness\":{\"value\":" \o JsonInt(value)
                \o JsonIntFieldOmitEmpty("duration", SetBrightnessDuration(dur))
                \o "}}",
     value |-> value, dur |-> dur]

\* SetEffect: struct{Select string}.
SetEffectCall(effect) ==
    [api |-> "SetEffect", method |-> "PUT", path |-> "/effects",
     body |-> "{\"select\":" \o JsonString(effect) \o "}"]

\* SetColor: hue, sat and brightness, each a struct{X int} under "value".
SetColorCall(col) ==
    [api |-> "SetColor", method |-> "PUT", path |-> "/state",
     body |-> "{\"hue\":{\"value\":" \o JsonInt(col.Hue)
                \o "},\"sat\":{\"value\":" \o JsonInt(col.Saturation)
                \o "},\"brightness\":{\"value\":" \o JsonInt(col.Brightness)
                \o "}}"]

\* Arguments tried by the model.
BrightnessValues == {0, 50}
DurationChoices ==
    { Dur(TRUE, <<0, 1500, 0, 0>>),     \* -1.5s
      Dur(TRUE, <<1, 0, 0, 0>>),        \* -1ns
      Dur(FALSE, Zero),                 \* 0
      Dur(FALSE, <<0, 500, 0, 0>>),     \* 500ms
      Dur(FALSE, <<999999, 999, 0, 0>>),\* 999999999ns
      Dur(FALSE, <<0, 1000, 0, 0>>),    \* 1s
      Dur(FALSE, <<0, 1500, 0, 0>>),    \* 1500ms
      Dur(FALSE, <<0, 90000, 0, 0>>) }  \* 90s
EffectChoices == {"Rainbow"}
ColorChoices == {[Hue |-> 360, Saturation |-> 100, Brightness |-> 0]}

ApiCalls ==
    {StateCall, OffCall, OnCall}
      \cup {SetBrightnessCall(v, d) : v \in BrightnessValues, d \in DurationChoices}
      \cup {SetEffectCall(e) : e \in EffectChoices}
      \cup {SetColorCall(c) : c \in ColorChoices}

\* ------------------------------------------------------------------------
\* Concurrent callers.  The locals of get/put and retry live in the frame of
\* the call: timeout, err, resp and the values returned.
\* ------------------------------------------------------------------------
Calls == {1, 2}

\* A response as seen by a caller: whose request it answers.
NilRespOf == [present |-> FALSE, status |-> 0, attempt |-> 0, owner |-> 0]

\* The frame of a caller that has not called yet.
NoFrame ==
    [op |-> "get", pc |-> "none", round |-> 0, timeout |-> Zero, attempts |-> 0,
     err |-> Nil, resp |-> NilRespOf, retErr |-> Nil, result |-> Nil,
     timeouts |-> <<>>, script |-> <<>>, body |-> [err |-> Nil, valid |-> TRUE]]
NoCalls == [p \in Calls |-> NoFrame]

\* The frame on entry of get or put: "var resp *http.Response".
NewFrame(o, r) == [NoFrame EXCEPT !.op = o, !.pc = "entry", !.round = r]

\* What an attempt can come to: a response with a status, the sub-context's
\* deadline, or a transport failure.
AttemptOutcomes ==
    {[err |-> Nil, status |-> st] : st \in {200, 500}}
      \cup {[err |-> e, status |-> 0] : e \in {ErrSubDeadline, ErrTransport(ECONNREFUSED)}}

\* get/put after retry: the error check, the status check, the read error
\* (get only) and json.Unmarshal (get only).
AfterResult(o, re, r, be, valid) ==
    IF re # Nil THEN re
    ELSE IF ~r.present THEN <<"nil pointer dereference">>
    ELSE IF r.status >= 300 THEN ErrStatus
    ELSE IF o = "put" THEN Nil
    ELSE IF be # Nil THEN ErrReading
    ELSE IF valid THEN Nil
    ELSE ErrDecode

\* ------------------------------------------------------------------------
\* State
\* ------------------------------------------------------------------------
VARIABLES
    op,             \* "get" or "put": the operation being run
    urlOK,          \* whether c.api(c.authToken, path) is a well-formed URL
    tracefSet,      \* c.Tracef != nil
    ctxHasDeadline, \* the umbrella context has a deadline
    ctxDeadline,    \* that deadline (Zero when there is none)
    ctxErr,         \* ctx.Err() of the umbrella context: Nil, <<Canceled>>, <<DeadlineExceeded>>
    now,            \* wall clock
    pauses,         \* scheduling delays taken so far
    pc,             \* position of the call
    timeout,        \* retry: timeout
    attempts,       \* number of attempts started (calls of f)
    subDeadline,    \* deadline of the current attempt's sub-context
    startedDone,    \* the current attempt started with the umbrella context done
    err,            \* retry: err returned by the last f(sub)
    resp,           \* get/put: resp, written by the attempt closure
    retErr,         \* value returned by retry
    bodyErr,        \* error of ioutil.ReadAll(resp.Body)
    result,         \* value returned by get/put
    decoded,        \* json.Unmarshal was called
    nTraceOp,       \* Tracef calls made by get/put itself
    nTraceStart,    \* Tracef calls "operation starting with timeout"
    nTraceEnd,      \* Tracef calls "operation finished" / "operation giving up"
    timeouts,       \* history: timeout of attempt 1, 2, ...
    nRetryFail,     \* history: attempts whose error retryableErr accepted
    succAt,         \* history: attempt that returned nil (0: none)
    permAt,         \* history: attempt that returned an error outside the timeout class (0: none)
    gaveUp,         \* history: retry returned through the ctx.Err() check
    ctxErrAtReturn, \* history: ctx.Err() when retry returned
    doneAtCheck,    \* history: attempt whose post-attempt check saw ctx done (0: none)
    cancelledInRetry, \* history: the caller cancelled ctx while retry was running
    t0,             \* retry: t0, the time the current attempt started
    subErr,         \* sub.Err() of the current attempt's sub-context
    nStartedDone,   \* history: attempts started with the umbrella context done
    reqs,           \* the HTTP requests handed to http.DefaultClient.Do, in order
    pool,           \* idle connections kept by the transport for reuse
    call,           \* the Controller method being run: its method, path and body
    callLog,        \* the Controller methods that have returned, with their results
    calls           \* concurrent callers: the locals of each one's get/put and retry

config == <<op, urlOK, tracefSet, ctxHasDeadline, ctxDeadline>>
clock == <<now, pauses>>
loop == <<timeout, attempts, subDeadline, startedDone, err, resp, timeouts>>
after == <<retErr, bodyErr, result, decoded>>
traces == <<nTraceOp, nTraceStart, nTraceEnd>>
hist == <<nRetryFail, succAt, permAt, gaveUp, ctxErrAtReturn, doneAtCheck,
          cancelledInRetry>>
sub == <<t0, subErr, nStartedDone>>
wire == <<reqs, pool>>
api == <<call, callLog>>
solo == <<config, ctxErr, clock, pc, loop, after, traces, hist, sub, wire, api>>
vars == <<solo, calls>>

\* Deadlines of the umbrella context tried by the model, in milliseconds
\* after the call starts (0: already expired on entry).
DeadlineChoicesMs == {0, 250, 1000}
\* A scheduling delay between two statements of retry.
PauseDur == Ms(200)

\* ctx.Err() of the umbrella context at time t, given its value e so far:
\* once set it never changes; a deadline that has passed sets it.
CtxErrAt(e, t) ==
    IF e # Nil THEN e
    ELSE IF ctxHasDeadline /\ Leq(ctxDeadline, t) THEN <<DeadlineExceeded>>
    ELSE Nil

\* tracef without the nil check of the hook
tracefAlways(set, n) == n + 1
\* c.tracef: one more call of the hook, if the hook is set, is added to n.
tracef(set, n) == IF set THEN n + 1 ELSE n

\* WithTimeout ignoring the deadline of the parent context
WithTimeoutNoParent(t, d) == Add(t, d)
\* context.WithTimeout(ctx, timeout): the deadline of the sub-context, the
\* earlier of the parent's deadline and now + timeout.
WithTimeout(t, d) ==
    IF ctxHasDeadline THEN MinDur(ctxDeadline, Add(t, d)) ELSE Add(t, d)

\* NextTimeout without the cap at maxTimeout
NextTimeoutNoCap(t) == DivSmall(MulSmall(t, backoffNum), backoffDen)
\* NextTimeout doubling instead of multiplying by backoffMult
NextTimeoutDouble(t) ==
    LET m == MulSmall(t, 2) IN IF Less(maxTimeout, m) THEN maxTimeout ELSE m
\* NextTimeout starting over at baseTimeout instead of staying at maxTimeout
NextTimeoutWrap(t) ==
    LET m == DivSmall(MulSmall(t, backoffNum), backoffDen)
    IN  IF Less(maxTimeout, m) THEN baseTimeout ELSE m
\* timeout = time.Duration(float64(timeout) * backoffMult), capped.  The
\* product is exact in float64 (below 2^53), the conversion truncates.
NextTimeout(t) ==
    LET m == DivSmall(MulSmall(t, backoffNum), backoffDen)
    IN  IF Less(maxTimeout, m) THEN maxTimeout ELSE m

\* ShouldGiveUp with the check of ctx.Err() left out
ShouldGiveUpNever(ctxe) == FALSE
\* "if err := ctx.Err(); err != nil": give up on the overall effort.
ShouldGiveUp(ctxe) == ctxe # Nil

\* GiveUpErr returning the attempt's error
GiveUpErrAttempt(ctxe, e) == e
\* The error retry returns on the give-up path: ctx.Err(), not err.
GiveUpErr(ctxe, e) == ctxe

\* cancel(): the sub-context is done from now on; a context that is already
\* done keeps its error.
CancelSubNoop(e) == e
CancelSub(e) == IF e = Nil THEN <<Canceled>> ELSE e

\* "req.Close = true" in the attempt closures of get and put.
ReqCloseUnset == FALSE
ReqClose == TRUE

\* http.DefaultClient.Do(req): the request goes out on a connection.  As
\* net/http documents Request.Close, a request with Close set is given a
\* connection of its own, closed after the exchange; without it the transport
\* may take an idle connection and may keep the connection for reuse.
Do(close) ==
    LET fresh == Len(reqs) + 1
    IN  \E c \in (IF close THEN {fresh} ELSE {fresh} \cup pool) :
          /\ reqs' = Append(reqs, [method |-> call.method, path |-> call.path,
                                   body |-> call.body, close |-> close,
                                   conn |-> c, attempt |-> attempts])
          /\ pool' = IF close THEN pool \ {c} ELSE pool \cup {c}

Init ==
    /\ op \in {"get", "put"}
    /\ urlOK \in BOOLEAN
    /\ tracefSet \in BOOLEAN
    /\ \/ ctxHasDeadline = FALSE /\ ctxDeadline = Zero
       \/ ctxHasDeadline = TRUE /\ \E d \in DeadlineChoicesMs : ctxDeadline = Ms(d)
    /\ now = Zero
    /\ \E pre \in {Nil, <<Canceled>>} : ctxErr = CtxErrAt(pre, Zero)
    /\ pauses = 0
    /\ pc = "entry"
    /\ timeout = Zero
    /\ attempts = 0
    /\ subDeadline = Zero
    /\ startedDone = FALSE
    /\ err = Nil
    /\ resp = NilResp
    /\ retErr = Nil
    /\ bodyErr = Nil
    /\ result = Nil
    /\ decoded = FALSE
    /\ nTraceOp = 0 /\ nTraceStart = 0 /\ nTraceEnd = 0
    /\ timeouts = <<>>
    /\ nRetryFail = 0 /\ succAt = 0 /\ permAt = 0
    /\ gaveUp = FALSE
    /\ ctxErrAtReturn = Nil
    /\ doneAtCheck = 0
    /\ cancelledInRetry = FALSE
    /\ t0 = Zero
    /\ subErr = Nil
    /\ nStartedDone = 0
    /\ reqs = <<>>
    /\ pool = {}
    /\ call = (IF op = "get" THEN StateCall ELSE OnCall)
    /\ callLog = <<>>
    /\ calls = NoCalls

\* Enter with retry giving up before the first attempt when ctx is done
EnterCheckFirst ==
    /\ pc = "entry"
    /\ nTraceOp' = tracef(tracefSet, nTraceOp)
    /\ timeout' = baseTimeout
    /\ IF ctxErr # Nil
       THEN retErr' = ctxErr /\ pc' = "retry_returned"
       ELSE retErr' = retErr /\ pc' = "attempt_start"
    /\ UNCHANGED <<config, ctxErr, clock, attempts, subDeadline, startedDone,
                   err, resp, timeouts, bodyErr, result, decoded,
                   nTraceStart, nTraceEnd, hist,
                   sub, wire, api>>
    /\ UNCHANGED calls
\* get/put up to the call of retry, and retry's "timeout := baseTimeout".
Enter ==
    /\ pc = "entry"
    /\ nTraceOp' = tracef(tracefSet, nTraceOp)
    /\ timeout' = baseTimeout
    /\ pc' = "attempt_start"
    /\ UNCHANGED <<config, ctxErr, clock, attempts, subDeadline, startedDone,
                   err, resp, timeouts, after, nTraceStart, nTraceEnd, hist,
                   sub, wire, api>>
    /\ UNCHANGED calls

\* Top of the loop: the sub-context, the trace line, and the call of f.
StartAttempt ==
    /\ pc = "attempt_start"
    /\ attempts < MaxAttempts
    /\ subDeadline' = WithTimeout(now, timeout)
    /\ startedDone' = (ctxErr # Nil)
    /\ nTraceStart' = tracef(tracefSet, nTraceStart)
    /\ attempts' = attempts + 1
    /\ timeouts' = Append(timeouts, timeout)
    /\ pc' = "in_flight"
    /\ t0' = now
    /\ subErr' = ctxErr
    /\ nStartedDone' = IF ctxErr # Nil THEN nStartedDone + 1 ELSE nStartedDone
    /\ UNCHANGED <<config, ctxErr, clock, timeout, err, resp, after,
                   nTraceOp, nTraceEnd, hist,
                   wire, api>>
    /\ UNCHANGED calls

\* f: http.NewRequestWithContext fails; resp is not assigned.
AttemptPrepErr ==
    /\ pc = "in_flight"
    /\ ~urlOK
    /\ err' = ErrPreparing
    /\ pc' = "classify"
    /\ UNCHANGED <<config, ctxErr, clock, timeout, attempts, subDeadline,
                   startedDone, resp, timeouts, after, traces, hist,
                   sub, wire, api>>
    /\ UNCHANGED calls

\* AttemptResponse with a 5xx response handed to retry as a timeout
AttemptResponseRetry5xx ==
    /\ pc = "in_flight"
    /\ urlOK
    /\ ~startedDone
    /\ \E s \in Statuses :
          /\ resp' = [present |-> TRUE, status |-> s, attempt |-> attempts]
          /\ err' = IF s >= 500 THEN ErrSubDeadline ELSE Nil
    /\ pc' = "classify"
    /\ Do(ReqClose)
    /\ UNCHANGED <<config, ctxErr, clock, timeout, attempts, subDeadline,
                   startedDone, timeouts, after, traces, hist,
                   sub, api>>
    /\ UNCHANGED calls

\* f: Do returns a response before the sub-context is done.
AttemptResponse ==
    /\ pc = "in_flight"
    /\ urlOK
    /\ ~startedDone
    /\ \E s \in Statuses :
          resp' = [present |-> TRUE, status |-> s, attempt |-> attempts]
    /\ err' = Nil
    /\ pc' = "classify"
    /\ Do(ReqClose)
    /\ UNCHANGED <<config, ctxErr, clock, timeout, attempts, subDeadline,
                   startedDone, timeouts, after, traces, hist,
                   sub, api>>
    /\ UNCHANGED calls

\* f: the sub-context's deadline passes; Do returns (nil, url.Error wrapping
\* context.DeadlineExceeded).
AttemptDeadline ==
    /\ pc = "in_flight"
    /\ urlOK
    /\ ctxErr # <<Canceled>>
    /\ now' = MaxDur(now, subDeadline)
    /\ ctxErr' = CtxErrAt(ctxErr, now')
    /\ resp' = NilResp
    /\ err' = ErrSubDeadline
    /\ pc' = "classify"
    /\ Do(ReqClose)
    /\ subErr' = IF subErr = Nil THEN <<DeadlineExceeded>> ELSE subErr
    /\ UNCHANGED <<config, pauses, timeout, attempts, subDeadline,
                   startedDone, timeouts, after, traces, hist,
                   t0, nStartedDone, api>>
    /\ UNCHANGED calls

\* f: the umbrella context is cancelled, and so is the sub-context; Do
\* returns (nil, url.Error wrapping context.Canceled).
AttemptCanceled ==
    /\ pc = "in_flight"
    /\ urlOK
    /\ ctxErr = <<Canceled>>
    /\ resp' = NilResp
    /\ err' = ErrCanceled
    /\ pc' = "classify"
    /\ Do(ReqClose)
    /\ UNCHANGED <<config, ctxErr, clock, timeout, attempts, subDeadline,
                   startedDone, timeouts, after, traces, hist,
                   sub, api>>
    /\ UNCHANGED calls

\* f: Do fails in the transport before the sub-context is done: a timeout
\* reported by the network (ETIMEDOUT), a refused connection, a broken read.
AttemptTransportFail ==
    /\ pc = "in_flight"
    /\ urlOK
    /\ ~startedDone
    /\ \E leaf \in TransportLeaves : err' = ErrTransport(leaf)
    /\ resp' = NilResp
    /\ pc' = "classify"
    /\ Do(ReqClose)
    /\ UNCHANGED <<config, ctxErr, clock, timeout, attempts, subDeadline,
                   startedDone, timeouts, after, traces, hist,
                   sub, api>>
    /\ UNCHANGED calls

\* cancel(), then "if !retryableErr(err) { tracef; return err }".
Classify ==
    /\ pc = "classify"
    /\ nRetryFail' = IF retryableErr(err) THEN nRetryFail + 1 ELSE nRetryFail
    /\ succAt' = IF err = Nil /\ succAt = 0 THEN attempts ELSE succAt
    /\ permAt' = IF err # Nil /\ ~TimeoutClass(err) /\ permAt = 0
                 THEN attempts ELSE permAt
    /\ IF ~retryableErr(err)
       THEN /\ nTraceEnd' = tracef(tracefSet, nTraceEnd)
            /\ retErr' = err
            /\ ctxErrAtReturn' = ctxErr
            /\ pc' = "retry_returned"
       ELSE /\ pc' = "check"
            /\ UNCHANGED <<nTraceEnd, retErr, ctxErrAtReturn>>
    /\ subErr' = CancelSub(subErr)
    /\ UNCHANGED <<config, ctxErr, clock, loop, bodyErr, result, decoded,
                   nTraceOp, nTraceStart, gaveUp, doneAtCheck, cancelledInRetry,
                   t0, nStartedDone, wire, api>>
    /\ UNCHANGED calls

\* "if err := ctx.Err(); err != nil { tracef; return err }"
CheckCtx ==
    /\ pc = "check"
    /\ IF ShouldGiveUp(ctxErr)
       THEN /\ nTraceEnd' = tracef(tracefSet, nTraceEnd)
            /\ retErr' = GiveUpErr(ctxErr, err)
            /\ gaveUp' = TRUE
            /\ ctxErrAtReturn' = ctxErr
            /\ doneAtCheck' = attempts
            /\ pc' = "retry_returned"
       ELSE /\ pc' = "backoff"
            /\ UNCHANGED <<nTraceEnd, retErr, gaveUp, ctxErrAtReturn, doneAtCheck>>
    /\ UNCHANGED <<config, ctxErr, clock, loop, bodyErr, result, decoded,
                   nTraceOp, nTraceStart, nRetryFail, succAt, permAt,
                   cancelledInRetry,
                   sub, wire, api>>
    /\ UNCHANGED calls

\* "Try again": the next timeout.
Backoff ==
    /\ pc = "backoff"
    /\ timeout' = NextTimeout(timeout)
    /\ pc' = "attempt_start"
    /\ UNCHANGED <<config, ctxErr, clock, attempts, subDeadline, startedDone,
                   err, resp, timeouts, after, traces, hist,
                   sub, wire, api>>
    /\ UNCHANGED calls

\* AfterRetry without the check of retry's error
AfterRetryNoErrCheck ==
    /\ pc = "retry_returned"
    /\ result' = result
    /\ pc' = "read_body"
    /\ UNCHANGED <<config, ctxErr, clock, loop, retErr, bodyErr, decoded,
                   traces, hist,
                   sub, wire, api>>
    /\ UNCHANGED calls
\* get/put: "if err != nil { return err }" after retry.
AfterRetry ==
    /\ pc = "retry_returned"
    /\ IF retErr # Nil
       THEN result' = retErr /\ pc' = "done"
       ELSE result' = result /\ pc' = "read_body"
    /\ UNCHANGED <<config, ctxErr, clock, loop, retErr, bodyErr, decoded,
                   traces, hist,
                   sub, wire, api>>
    /\ UNCHANGED calls

\* get/put: ioutil.ReadAll(resp.Body); resp.Body.Close().  A nil resp is a
\* nil-pointer dereference.
ReadBody ==
    /\ pc = "read_body"
    /\ IF resp.present
       THEN /\ \E re \in {Nil, <<UnexpectedEOF>>} : bodyErr' = re
            /\ pc' = "status_check"
       ELSE /\ bodyErr' = bodyErr
            /\ pc' = "panic"
    /\ UNCHANGED <<config, ctxErr, clock, loop, retErr, result, decoded,
                   traces, hist,
                   sub, wire, api>>
    /\ UNCHANGED calls

\* StatusCheck with get's read-error check placed before the status check
StatusCheckReadErrFirst ==
    /\ pc = "status_check"
    /\ IF op = "get" /\ bodyErr # Nil
       THEN result' = ErrReading /\ pc' = "done"
       ELSE IF resp.status >= 300
       THEN result' = ErrStatus /\ pc' = "done"
       ELSE IF op = "put"
       THEN result' = Nil /\ pc' = "done"
       ELSE result' = result /\ pc' = "decode"
    /\ UNCHANGED <<config, ctxErr, clock, loop, retErr, bodyErr, decoded,
                   traces, hist,
                   sub, wire, api>>
    /\ UNCHANGED calls

\* get/put: the status check; get: then the check of the read error.
StatusCheck ==
    /\ pc = "status_check"
    /\ IF resp.status >= 300
       THEN result' = ErrStatus /\ pc' = "done"
       ELSE IF op = "put"
       THEN result' = Nil /\ pc' = "done"
       ELSE IF bodyErr # Nil
       THEN result' = ErrReading /\ pc' = "done"
       ELSE result' = result /\ pc' = "decode"
    /\ UNCHANGED <<config, ctxErr, clock, loop, retErr, bodyErr, decoded,
                   traces, hist,
                   sub, wire, api>>
    /\ UNCHANGED calls

\* get: return json.Unmarshal(body, dst).
Decode ==
    /\ pc = "decode"
    /\ decoded' = TRUE
    /\ \E valid \in BOOLEAN : result' = IF valid THEN Nil ELSE ErrDecode
    /\ pc' = "done"
    /\ UNCHANGED <<config, ctxErr, clock, loop, retErr, bodyErr, traces, hist,
                   sub, wire, api>>
    /\ UNCHANGED calls

InRetry == pc \in {"attempt_start", "in_flight", "classify", "check", "backoff"}

\* The caller cancels the umbrella context while retry runs.
Cancel ==
    /\ InRetry
    /\ ctxErr = Nil
    /\ ctxErr' = <<Canceled>>
    /\ cancelledInRetry' = TRUE
    /\ subErr' = IF pc \in {"in_flight", "classify"} /\ subErr = Nil
                 THEN <<Canceled>> ELSE subErr
    /\ UNCHANGED <<config, clock, pc, loop, after, traces, nRetryFail, succAt,
                   permAt, gaveUp, ctxErrAtReturn, doneAtCheck,
                   t0, nStartedDone, wire, api>>
    /\ UNCHANGED calls

\* Time passes between two statements of retry: before the sub-context is
\* made, or before the ctx.Err() check.
Pause ==
    /\ pc \in {"attempt_start", "check"}
    /\ pauses < MaxPauses
    /\ pauses' = pauses + 1
    /\ now' = Add(now, PauseDur)
    /\ ctxErr' = CtxErrAt(ctxErr, now')
    /\ UNCHANGED <<config, pc, loop, after, traces, hist,
                   sub, wire, api>>
    /\ UNCHANGED calls

Next ==
    \/ Enter
    \/ StartAttempt
    \/ AttemptPrepErr
    \/ AttemptResponse
    \/ AttemptDeadline
    \/ AttemptCanceled
    \/ AttemptTransportFail
    \/ Classify
    \/ CheckCtx
    \/ Backoff
    \/ AfterRetry
    \/ ReadBody
    \/ StatusCheck
    \/ Decode
    \/ Cancel
    \/ Pause

Spec == Init /\ [][Next]_vars

\* ------------------------------------------------------------------------
\* A caller running Controller methods one after the other against a
\* transport whose every exchange succeeds with a status below 300.
\* ------------------------------------------------------------------------
ApiInit ==
    /\ op = "get"
    /\ urlOK = TRUE
    /\ tracefSet \in BOOLEAN
    /\ ctxHasDeadline = FALSE /\ ctxDeadline = Zero
    /\ now = Zero
    /\ ctxErr = Nil
    /\ pauses = 0
    /\ pc = "idle"
    /\ timeout = Zero
    /\ attempts = 0
    /\ subDeadline = Zero
    /\ startedDone = FALSE
    /\ err = Nil
    /\ resp = NilResp
    /\ retErr = Nil
    /\ bodyErr = Nil
    /\ result = Nil
    /\ decoded = FALSE
    /\ nTraceOp = 0 /\ nTraceStart = 0 /\ nTraceEnd = 0
    /\ timeouts = <<>>
    /\ nRetryFail = 0 /\ succAt = 0 /\ permAt = 0
    /\ gaveUp = FALSE
    /\ ctxErrAtReturn = Nil
    /\ doneAtCheck = 0
    /\ cancelledInRetry = FALSE
    /\ t0 = Zero
    /\ subErr = Nil
    /\ nStartedDone = 0
    /\ reqs = <<>>
    /\ pool = {}
    /\ call = StateCall
    /\ callLog = <<>>
    /\ calls = NoCalls

\* The caller invokes a Controller method: the method builds its request and
\* calls get or put, whose locals start afresh.
ApiCall ==
    /\ pc = "idle"
    /\ Len(callLog) < MaxCalls
    /\ \E c \in ApiCalls :
          /\ call' = c
          /\ op' = IF c.method = "GET" THEN "get" ELSE "put"
    /\ pc' = "entry"
    /\ timeout' = Zero
    /\ attempts' = 0
    /\ subDeadline' = Zero
    /\ startedDone' = FALSE
    /\ err' = Nil
    /\ resp' = NilResp
    /\ retErr' = Nil
    /\ bodyErr' = Nil
    /\ result' = Nil
    /\ decoded' = FALSE
    /\ nTraceOp' = 0 /\ nTraceStart' = 0 /\ nTraceEnd' = 0
    /\ timeouts' = <<>>
    /\ nRetryFail' = 0 /\ succAt' = 0 /\ permAt' = 0
    /\ gaveUp' = FALSE
    /\ ctxErrAtReturn' = Nil
    /\ doneAtCheck' = 0
    /\ cancelledInRetry' = FALSE
    /\ t0' = Zero
    /\ subErr' = Nil
    /\ nStartedDone' = 0
    /\ UNCHANGED <<urlOK, tracefSet, ctxHasDeadline, ctxDeadline, ctxErr,
                   clock, wire, callLog>>
    /\ UNCHANGED calls

\* The method returns to the caller.
ApiReturn ==
    /\ pc = "done"
    /\ callLog' = Append(callLog, [api |-> call.api, result |-> result])
    /\ pc' = "idle"
    /\ UNCHANGED <<config, ctxErr, clock, loop, after, traces, hist, sub,
                   wire, call>>
    /\ UNCHANGED calls

\* The transport answers with a status below 300.
MockResponse == AttemptResponse /\ resp'.status < 300

ApiNext ==
    \/ ApiCall
    \/ Enter
    \/ StartAttempt
    \/ MockResponse
    \/ Classify
    \/ AfterRetry
    \/ ReadBody
    \/ StatusCheck
    \/ Decode
    \/ ApiReturn

ApiSpec == ApiInit /\ [][ApiNext]_vars

\* ------------------------------------------------------------------------
\* Two goroutines calling get and put on the same Controller.  A step is a
\* statement of one caller; the steps of the callers interleave freely.
\* ------------------------------------------------------------------------

\* Caller p calls get or put (again, once its earlier call has returned).
CCall(p) ==
    /\ calls[p].pc \in {"none", "done"}
    /\ calls[p].round < MaxRounds
    /\ \E o \in {"get", "put"} :
          calls' = [calls EXCEPT ![p] = NewFrame(o, calls[p].round + 1)]
    /\ UNCHANGED solo

\* retry: "timeout := baseTimeout".
CEnter(p) ==
    /\ calls[p].pc = "entry"
    /\ calls' = [calls EXCEPT ![p].timeout = baseTimeout,
                              ![p].pc = "attempt_start"]
    /\ UNCHANGED solo

\* One call of f: the closure assigns the captured resp and returns err.
CAttempt(p) ==
    /\ calls[p].pc = "attempt_start"
    /\ calls[p].attempts < MaxConcAttempts
    /\ \E out \in AttemptOutcomes :
          LET n == calls[p].attempts + 1
          IN  calls' = [calls EXCEPT
                  ![p].attempts = n,
                  ![p].timeouts = Append(@, calls[p].timeout),
                  ![p].err = out.err,
                  ![p].resp = IF out.err = Nil
                              THEN [present |-> TRUE, status |-> out.status,
                                    attempt |-> n, owner |-> p]
                              ELSE NilRespOf,
                  ![p].script = Append(@, [err |-> out.err, status |-> out.status,
                                           ctxe |-> Nil]),
                  ![p].pc = "classify"]
    /\ UNCHANGED solo

\* "if !retryableErr(err) { return err }"
CClassify(p) ==
    /\ calls[p].pc = "classify"
    /\ calls' = IF ~retryableErr(calls[p].err)
                THEN [calls EXCEPT ![p].retErr = calls[p].err,
                                   ![p].pc = "retry_returned"]
                ELSE [calls EXCEPT ![p].pc = "check"]
    /\ UNCHANGED solo

\* "if err := ctx.Err(); err != nil { return err }": the caller's context is
\* found live or cancelled.
CCheckCtx(p) ==
    /\ calls[p].pc = "check"
    /\ \E ctxe \in {Nil, <<Canceled>>} :
          calls' = IF ShouldGiveUp(ctxe)
                   THEN [calls EXCEPT
                           ![p].script[calls[p].attempts].ctxe = ctxe,
                           ![p].retErr = GiveUpErr(ctxe, calls[p].err),
                           ![p].pc = "retry_returned"]
                   ELSE [calls EXCEPT ![p].pc = "backoff"]
    /\ UNCHANGED solo

\* CBackoff with the timeout kept in a field of the Controller
CBackoffShared(p) ==
    /\ calls[p].pc = "backoff"
    /\ calls' = [q \in Calls |->
                  IF q = p
                  THEN [calls[q] EXCEPT !.timeout = NextTimeout(calls[p].timeout),
                                        !.pc = "attempt_start"]
                  ELSE [calls[q] EXCEPT !.timeout = NextTimeout(calls[p].timeout)]]
    /\ UNCHANGED solo
\* "Try again": the next timeout, in the caller's own local.
CBackoff(p) ==
    /\ calls[p].pc = "backoff"
    /\ calls' = [calls EXCEPT ![p].timeout = NextTimeout(@),
                              ![p].pc = "attempt_start"]
    /\ UNCHANGED solo

\* get/put after retry has returned, up to their own return.
CFinish(p) ==
    /\ calls[p].pc = "retry_returned"
    /\ \E be \in {Nil, <<UnexpectedEOF>>}, valid \in BOOLEAN :
          calls' = [calls EXCEPT
                      ![p].body = [err |-> be, valid |-> valid],
                      ![p].result = AfterResult(calls[p].op, calls[p].retErr,
                                                calls[p].resp, be, valid),
                      ![p].pc = "done"]
    /\ UNCHANGED solo

ConcNext ==
    \E p \in Calls :
       \/ CCall(p)
       \/ CEnter(p)
       \/ CAttempt(p)
       \/ CClassify(p)
       \/ CCheckCtx(p)
       \/ CBackoff(p)
       \/ CFinish(p)

ConcSpec == ApiInit /\ [][ConcNext]_vars

\* The steps of the call itself: every statement is eventually executed and
\* every attempt eventually returns (the transport observes the sub-context).
\* Cancel and Pause belong to the environment and need not happen.
Program ==
    \/ Enter
    \/ StartAttempt
    \/ AttemptPrepErr
    \/ AttemptResponse
    \/ AttemptDeadline
    \/ AttemptCanceled
    \/ AttemptTransportFail
    \/ Classify
    \/ CheckCtx
    \/ Backoff
    \/ AfterRetry
    \/ ReadBody
    \/ StatusCheck
    \/ Decode

FairSpec == Spec /\ WF_vars(Program)

TypeOK ==
    /\ pc \in {"entry", "attempt_start", "in_flight", "classify", "check",
               "backoff", "retry_returned", "read_body", "status_check",
               "decode", "done", "panic", "idle"}
    /\ attempts \in 0..MaxAttempts
    /\ Len(timeouts) = attempts

\* ------------------------------------------------------------------------
\* Properties
\* ------------------------------------------------------------------------

\* retry has returned to get/put.
Returned == pc \in {"retry_returned", "read_body", "status_check", "decode",
                    "done", "panic"}

\* C1: when the N-th attempt is the first to succeed (the N-1 before it having
\* failed with retryable errors and no post-attempt check having seen the
\* umbrella context done), retry has made exactly N attempts, starts no other,
\* and returns nil; and retry returns only after a success, after an error it
\* does not retry, or after a check that saw the umbrella context done.
C1_RetryUntilSuccess ==
    /\ succAt # 0 =>
          /\ attempts = succAt
          /\ nRetryFail = succAt - 1
          /\ Returned
          /\ retErr = Nil
          /\ ~gaveUp
    /\ Returned => (succAt # 0 \/ gaveUp \/ (err # Nil /\ retErr = err))

C1_Witness ==
    /\ pc = "retry_returned"
    /\ succAt = 4
    /\ nRetryFail = 3
    /\ attempts = 4
    /\ retErr = Nil
    /\ ctxErr = Nil

RECURSIVE MulPow(_, _, _)
MulPow(d, m, k) == IF k = 0 THEN d ELSE MulPow(MulSmall(d, m), m, k - 1)
RECURSIVE DivPow(_, _, _)
DivPow(d, q, k) == IF k = 0 THEN d ELSE DivPow(DivSmall(d, q), q, k - 1)

\* min(base * 1.5^k, max) in whole nanoseconds: floor(base * 3^k / 2^k),
\* computed exactly (the power first, one division), capped at max.
ClosedForm(k) ==
    MinDur(DivPow(MulPow(baseTimeout, backoffNum, k), backoffDen, k), maxTimeout)

\* C2: the timeout used by attempt k (k = 0, 1, ...) of one call of retry is
\* min(100ms * 1.5^k, 5s) held as an integer number of nanoseconds, and the
\* current timeout is the one of the attempt in progress.
C2_TimeoutClosedForm ==
    /\ \A k \in 0..(Len(timeouts) - 1) : timeouts[k + 1] = ClosedForm(k)
    /\ pc \in {"in_flight", "classify", "check"} => timeout = ClosedForm(attempts - 1)

\* Attempt 9 runs with 3844335937 ns (100ms * 1.5^9 is 3844335937.5 ns) and
\* attempt 10 and 11 with the 5s maximum.
C2_Witness ==
    /\ Len(timeouts) >= 12
    /\ timeouts[2] = Ms(150)
    /\ timeouts[10] = <<335937, 3844, 0, 0>>
    /\ timeouts[11] = maxTimeout
    /\ timeouts[12] = maxTimeout

\* C3: once an attempt has returned an error outside the timeout class (a
\* request-construction error included), retry starts no further attempt and
\* returns exactly that error; on the first attempt that makes one attempt.
C3_PermanentErrorReturned ==
    permAt # 0 =>
        /\ attempts = permAt
        /\ Returned
        /\ err # Nil
        /\ retErr = err
        /\ ~gaveUp

C3_Witness ==
    /\ pc = "done"
    /\ permAt = 1
    /\ attempts = 1
    /\ err = ErrPreparing
    /\ result = ErrPreparing

\* C4: when the post-attempt check finds the umbrella context done after a
\* retryable failure, retry starts no further attempt and returns ctx.Err(),
\* which is not the attempt's error; with the deadline expired and the last
\* attempt failed retryably, what retry returns is context.DeadlineExceeded
\* itself.
C4_DeadlineGivesCtxErr ==
    /\ doneAtCheck # 0 =>
          /\ attempts = doneAtCheck
          /\ Returned
          /\ gaveUp
          /\ retErr = ctxErrAtReturn
          /\ retErr # err
    /\ (Returned /\ ctxErrAtReturn = <<DeadlineExceeded>> /\ ErrorsIs(err, DeadlineExceeded))
          => (gaveUp /\ retErr = <<DeadlineExceeded>>)

C4_Witness ==
    /\ pc = "done"
    /\ ctxHasDeadline /\ ctxDeadline = Ms(1000)
    /\ attempts = 5
    /\ nRetryFail = 5
    /\ err = ErrSubDeadline
    /\ result = <<DeadlineExceeded>>

\* C5: an attempt's error causes another attempt if and only if it is of the
\* timeout class: it is or wraps context.DeadlineExceeded, or an error of its
\* chain is a net.Error whose Timeout() is true.
C5_RetryIffTimeoutClass ==
    /\ pc \in {"check", "backoff"} => TimeoutClass(err)
    /\ (Returned /\ ~gaveUp /\ err # Nil) => ~TimeoutClass(err)

\* C6 as claimed: when the caller cancels the umbrella context while retry
\* runs and retry returns an error, that error is the value of ctx.Err().
C6_CancelGivesCtxErr ==
    (cancelledInRetry /\ Returned /\ retErr # Nil) => retErr = <<Canceled>>

\* C6 as amended: when the caller cancels the umbrella context while retry
\* runs and retry returns an error, the error is ctx.Err() itself exactly
\* when the last attempt failed with a deadline error and the post-attempt
\* check saw the cancellation; otherwise it is the last attempt's own error,
\* which for an attempt that observed the cancellation wraps context.Canceled
\* without being ctx.Err(); in no case is it or does it wrap
\* context.DeadlineExceeded.
C6_CancelErrorKinds ==
    (cancelledInRetry /\ Returned /\ retErr # Nil) =>
        /\ ~ErrorsIs(retErr, DeadlineExceeded)
        /\ IF ErrorsIs(err, DeadlineExceeded)
           THEN gaveUp /\ retErr = <<Canceled>> /\ retErr = ctxErrAtReturn
           ELSE ~gaveUp /\ retErr = err
        /\ ErrorsIs(err, Canceled) =>
              (retErr = ErrCanceled /\ ErrorsIs(retErr, Canceled)
                 /\ retErr # ctxErrAtReturn)

C6_Witness ==
    /\ pc = "done"
    /\ cancelledInRetry
    /\ attempts = 2
    /\ err = ErrCanceled
    /\ result = ErrCanceled
    /\ ctxErrAtReturn = <<Canceled>>

\* C7 as claimed: over one call of retry the trace hook is called by retry
\* once at the start and once at the end, however many attempts are made.
C7_TraceOncePerOperation ==
    (tracefSet /\ Returned) => (nTraceStart = 1 /\ nTraceEnd = 1)

\* C7 as amended: with the hook set, retry calls it once at the start of
\* every attempt and exactly once when it returns; with the hook absent it is
\* never called.
C7_TracePerAttempt ==
    /\ nTraceStart = (IF tracefSet THEN attempts ELSE 0)
    /\ nTraceEnd = (IF tracefSet /\ Returned THEN 1 ELSE 0)

C7_Witness ==
    /\ pc = "retry_returned"
    /\ tracefSet
    /\ attempts = 3
    /\ nTraceStart = 3
    /\ nTraceEnd = 1

\* The attempt counter of the model has reached its bound.
Capped == attempts = MaxAttempts /\ pc \in {"backoff", "attempt_start"}

\* C8: with an umbrella context that has a deadline, or that is done, retry
\* eventually returns; and retry returns only after a success, after an error
\* that is not a deadline error, or with the umbrella context done.
C8_ReturnsOnlyWithinDeadline ==
    /\ ctxHasDeadline ~> Returned
    /\ (ctxErr # Nil /\ ~Capped) ~> Returned
    /\ [](Returned =>
            \/ err = Nil
            \/ ~ErrorsIs(err, DeadlineExceeded)
            \/ ctxErrAtReturn # Nil)

C8_Witness ==
    /\ Returned
    /\ gaveUp
    /\ ctxHasDeadline /\ ctxDeadline = Ms(250)
    /\ pauses = 0
    /\ attempts = 2
    /\ now = Ms(250)

\* C9: after retry has delivered a response, a status >= 300 gives the
\* "HTTP response" error whatever the body and the outcome of reading it, and
\* json.Unmarshal is reached only in get, with status < 300 and the body read;
\* a decode error comes only after that.
C9_StatusBeforeDecode ==
    /\ (pc = "done" /\ retErr = Nil /\ resp.present /\ resp.status >= 300)
          => (result = ErrStatus /\ ~decoded)
    /\ (pc = "decode" \/ decoded)
          => (op = "get" /\ retErr = Nil /\ resp.present /\ resp.status < 300
                /\ bodyErr = Nil)
    /\ (pc = "done" /\ result = ErrDecode) => decoded

C9_Witness ==
    /\ pc = "done"
    /\ op = "get"
    /\ resp.present /\ resp.status = 500
    /\ bodyErr # Nil
    /\ result = ErrStatus
    /\ ~decoded

\* C10: once an attempt has obtained an HTTP response, whatever its status,
\* no further attempt is made, retry returns nil, and a status >= 300 is
\* surfaced as the status error; an attempt that is retried has no response.
C10_ResponseEndsRetry ==
    /\ resp.present =>
          /\ attempts = resp.attempt
          /\ pc \notin {"check", "backoff", "attempt_start", "in_flight"}
          /\ Returned => retErr = Nil
          /\ (pc = "done" /\ resp.status >= 300) => result = ErrStatus
    /\ pc \in {"check", "backoff"} => (err # Nil /\ ~resp.present)

C10_Witness ==
    /\ pc = "done"
    /\ resp.present /\ resp.status = 500 /\ resp.attempt = 2
    /\ attempts = 2
    /\ nRetryFail = 1
    /\ result = ErrStatus

\* Whole seconds of a non-negative duration, read off its limbs: a limb of
\* nanoseconds below 10^6, a limb of milliseconds, a limb of 10^12 ns.
WholeSeconds(mag) == (mag[2] \div 1000) + 1000 * mag[3]

\* C11 as claimed: the body SetBrightness encodes has no duration field when
\* the duration is negative, and a duration field holding the duration in
\* whole seconds when it is not.
C11_DurationFieldIffNonNegative ==
    call.api = "SetBrightness" =>
        call.body = (IF call.dur.neg
                     THEN "{\"brightness\":{\"value\":" \o ToString(call.value) \o "}}"
                     ELSE "{\"brightness\":{\"value\":" \o ToString(call.value)
                            \o ",\"duration\":" \o ToString(WholeSeconds(call.dur.mag))
                            \o "}}")

\* C11 as amended: the body has no duration field when the duration is
\* negative or shorter than one second, and a duration field holding the
\* duration in whole seconds when it is one second or more.
C11_DurationFieldIffWholeSeconds ==
    call.api = "SetBrightness" =>
        call.body = (IF call.dur.neg \/ WholeSeconds(call.dur.mag) = 0
                     THEN "{\"brightness\":{\"value\":" \o ToString(call.value) \o "}}"
                     ELSE "{\"brightness\":{\"value\":" \o ToString(call.value)
                            \o ",\"duration\":" \o ToString(WholeSeconds(call.dur.mag))
                            \o "}}")

C11_Witness ==
    /\ pc = "idle"
    /\ Len(reqs) = 2
    /\ reqs[1].body = "{\"brightness\":{\"value\":50,\"duration\":1}}"
    /\ reqs[2].body = "{\"brightness\":{\"value\":50}}"
    /\ call.api = "SetBrightness" /\ call.dur = Dur(FALSE, <<999999, 999, 0, 0>>)
    /\ callLog = <<[api |-> "SetBrightness", result |-> Nil],
                   [api |-> "SetBrightness", result |-> Nil]>>

\* The method, path and body of the i-th request handed to the transport.
Sent(i) == [method |-> reqs[i].method, path |-> reqs[i].path, body |-> reqs[i].body]

\* C12: against a transport that always succeeds, when On followed by Off
\* have both returned they have issued exactly two requests, in order PUT /state {"on":{"value":true}} and
\* PUT /state {"on":{"value":false}}, and both calls return success.
C12_OnThenOff ==
    (/\ pc = "idle"
     /\ Len(callLog) = 2
     /\ callLog[1].api = "On"
     /\ callLog[2].api = "Off")
    => /\ Len(reqs) = 2
       /\ Sent(1) = [method |-> "PUT", path |-> "/state",
                     body |-> "{\"on\":{\"value\":true}}"]
       /\ Sent(2) = [method |-> "PUT", path |-> "/state",
                     body |-> "{\"on\":{\"value\":false}}"]
       /\ reqs[1].attempt = 1 /\ reqs[2].attempt = 1
       /\ callLog[1].result = Nil
       /\ callLog[2].result = Nil

C12_Witness ==
    /\ pc = "idle"
    /\ callLog = <<[api |-> "On", result |-> Nil], [api |-> "Off", result |-> Nil]>>
    /\ Len(reqs) = 2
    /\ reqs[2].body = "{\"on\":{\"value\":false}}"

\* C14: inside a retry call the timeout is always between baseTimeout and
\* maxTimeout; the timeouts of successive attempts never decrease, and once
\* an attempt has run with maxTimeout every later attempt does too.
C14_TimeoutRange ==
    /\ pc \notin {"entry", "idle"} =>
          /\ Leq(baseTimeout, timeout)
          /\ Leq(timeout, maxTimeout)
    /\ \A i \in 1..Len(timeouts) :
          /\ Leq(baseTimeout, timeouts[i])
          /\ Leq(timeouts[i], maxTimeout)
          /\ i < Len(timeouts) =>
                /\ Leq(timeouts[i], timeouts[i + 1])
                /\ timeouts[i] = maxTimeout => timeouts[i + 1] = maxTimeout
    /\ \A i \in 1..Len(timeouts) :
          (InRetry /\ timeouts[i] = maxTimeout) => timeout = maxTimeout

C14_Witness ==
    /\ pc = "in_flight"
    /\ attempts = 12
    /\ timeouts[1] = baseTimeout
    /\ timeouts[11] = maxTimeout
    /\ timeout = maxTimeout

\* An attempt is under way: its sub-context exists and f has not returned,
\* or has returned and is about to be classified.
AttemptUnderWay == pc \in {"in_flight", "classify"}

\* C15: the sub-context of an attempt has the deadline min(umbrella deadline,
\* attempt start + current timeout); it is done whenever the umbrella is
\* done, and it is not done when the attempt starts with a live umbrella.
C15_SubContext ==
    /\ AttemptUnderWay =>
          /\ Leq(subDeadline, Add(t0, timeout))
          /\ ctxHasDeadline => Leq(subDeadline, ctxDeadline)
          /\ \/ subDeadline = Add(t0, timeout)
             \/ ctxHasDeadline /\ subDeadline = ctxDeadline
          /\ timeout = timeouts[attempts]
          /\ ctxErr # Nil => subErr # Nil
    /\ (pc = "in_flight" /\ ctxErr = Nil) => subErr = Nil

C15_Witness ==
    /\ pc = "in_flight"
    /\ attempts >= 2
    /\ ctxHasDeadline
    /\ subDeadline = ctxDeadline
    /\ Less(ctxDeadline, Add(t0, timeout))
    /\ subErr = Nil

\* C16: retry has made at least one attempt when it returns, also when ctx
\* was done on entry; at most one attempt is started with ctx done, and after
\* that attempt retry returns without starting another.
C16_AtLeastOneAttempt ==
    /\ Returned => attempts >= 1
    /\ nStartedDone <= 1
    /\ nStartedDone = 1 =>
          /\ startedDone
          /\ pc \notin {"entry", "attempt_start", "backoff"}
          /\ Returned => (retErr # Nil /\ ~resp.present)

C16_Witness ==
    /\ pc = "retry_returned"
    /\ attempts = 1
    /\ nStartedDone = 1
    /\ retErr = <<DeadlineExceeded>>
    /\ ctxHasDeadline

\* C17 as claimed: while get reads the body of the successful response, the
\* sub-context of the attempt that produced it has not been cancelled.
C17_SubLiveDuringBodyRead ==
    (op = "get" /\ pc = "read_body" /\ resp.present) => subErr = Nil

\* C18: when get or put goes on to read resp.Body, retry has returned nil and
\* resp is the non-nil response of the final attempt; when retry has returned
\* an error, resp is never dereferenced.
C18_RespNonNilWhenRead ==
    /\ pc \in {"read_body", "status_check", "decode"} =>
          /\ retErr = Nil
          /\ resp.present
          /\ resp.attempt = attempts
          /\ succAt = attempts
    /\ pc # "panic"
    /\ (Returned /\ retErr # Nil) => pc \in {"retry_returned", "done"}
    /\ (pc = "done" /\ retErr # Nil) => (result = retErr /\ bodyErr = Nil /\ ~decoded)

C18_Witness ==
    /\ pc = "read_body"
    /\ attempts = 3
    /\ resp.present /\ resp.attempt = 3
    /\ retErr = Nil

\* C19: every request handed to the transport is marked to close its
\* connection, so no connection is left for a later attempt and no two
\* requests travel on the same connection.
C19_FreshConnection ==
    /\ \A i \in 1..Len(reqs) : reqs[i].close
    /\ pool = {}
    /\ \A i \in 1..Len(reqs) : \A j \in 1..Len(reqs) :
          i < j => reqs[i].conn # reqs[j].conn

C19_Witness ==
    /\ pc = "classify"
    /\ Len(reqs) = 3
    /\ reqs[3].attempt = 3
    /\ reqs[3].close
    /\ reqs[3].conn \notin {reqs[1].conn, reqs[2].conn}

\* retry run on its own over the attempt outcomes s, from attempt i with
\* timeout t: the number of attempts, their timeouts, and what it returns.
RECURSIVE RunRetry(_, _, _, _)
RunRetry(s, i, t, ts) ==
    LET a == s[i]
        tsn == Append(ts, t)
    IN  IF ~retryableErr(a.err)
        THEN [attempts |-> i, timeouts |-> tsn, retErr |-> a.err,
              resp |-> IF a.err = Nil
                       THEN [present |-> TRUE, status |-> a.status, attempt |-> i]
                       ELSE NilResp]
        ELSE IF ShouldGiveUp(a.ctxe)
        THEN [attempts |-> i, timeouts |-> tsn,
              retErr |-> GiveUpErr(a.ctxe, a.err), resp |-> NilResp]
        ELSE IF i = Len(s)
        THEN [attempts |-> 0, timeouts |-> <<>>, retErr |-> Nil, resp |-> NilResp]
        ELSE RunRetry(s, i + 1, NextTimeout(t), tsn)

\* The call of frame f run alone against the outcomes f met.
RunAlone(f) ==
    LET r == RunRetry(f.script, 1, baseTimeout, <<>>)
    IN  [attempts |-> r.attempts, timeouts |-> r.timeouts, retErr |-> r.retErr,
         respAttempt |-> r.resp.attempt,
         result |-> AfterResult(f.op, r.retErr, r.resp, f.body.err, f.body.valid)]

\* C13: under every interleaving of two callers, and whatever calls came
\* before, each call starts its backoff at baseTimeout, holds the response of
\* its own last attempt, and ends with the attempts, timeouts and result it
\* would have had running alone against the same attempt outcomes.
C13_CallsIndependent ==
    \A p \in Calls :
       LET f == calls[p]
       IN  /\ Len(f.timeouts) = f.attempts
           /\ f.attempts >= 1 => f.timeouts[1] = baseTimeout
           /\ f.resp.present => (f.resp.owner = p /\ f.resp.attempt = f.attempts)
           /\ f.pc = "done" =>
                 /\ f.attempts = RunAlone(f).attempts
                 /\ f.timeouts = RunAlone(f).timeouts
                 /\ f.retErr = RunAlone(f).retErr
                 /\ f.resp.attempt = RunAlone(f).respAttempt
                 /\ f.result = RunAlone(f).result

C13_Witness ==
    /\ calls[1].pc = "done" /\ calls[1].round = 2
    /\ calls[2].pc = "done" /\ calls[2].round = 1
    /\ calls[1].timeouts = <<Ms(100), Ms(150), Ms(225)>>
    /\ calls[2].timeouts = <<Ms(100), Ms(150)>>
    /\ calls[1].result = Nil
    /\ calls[2].result = <<Canceled>>

====
